---- MODULE Spec2Model ----
(***************************************************************************)
(* Session state machine of quiz-bot.py: the ConversationHandler with its  *)
(* two states, the per-user user_data dictionary and the four handlers     *)
(* start, start_quiz, handle_answer and handle_next, together with         *)
(* send_next_question_batch.  One user, events handled one at a time.      *)
(***************************************************************************)
EXTENDS Integers, Sequences, FiniteSets, TLC

VARIABLES
    bot_data,    \* bot_data['questions']: the loaded bank, fixed after start-up
    state,       \* the ConversationHandler's state for the user
    user_data,   \* context.user_data of the user
    out,         \* the messages sent while handling the last update
    last,        \* history: the last update and user_data, state, hist before it
    hist,        \* history of the session held in user_data (see HistInit)
    tasks,       \* the handlers suspended at an await, by the name of their
                 \* task; empty while updates are handled one at a time
    user         \* what the user sends: ANY button, or COOPERATIVE (only
                 \* answers for open questions and due next requests)

vars == <<bot_data, state, user_data, out, last, hist, tasks, user>>

----------------------------------------------------------------------------
(* Program constants *)

QUESTIONS_PER_BATCH == 10
RANDOM_TARGET == 50

SELECTING_SUBJECT == "SELECTING_SUBJECT"
QUIZ_IN_PROGRESS == "QUIZ_IN_PROGRESS"
END == "END"
\* a handler that raises leaves the conversation state as it was
RAISED == "RAISED"

known_subjects == <<"osimlik-moyi", "O'simlik-moyi-texnologiyasi">>

ANY == "any"
COOPERATIVE == "cooperative"

\* the tasks that may run handlers of the user at the same time
TaskNames == {"t1", "t2"}
IdleTask == [pc |-> "idle"]
NoTasks == [t \in TaskNames |-> IdleTask]

----------------------------------------------------------------------------
(* Bounds of the model *)

\* length of the long subject of BankBig (more than one batch)
BigLen == 11
\* questions at an offset below FreeQids in their batch are answered in any
\* order with any letter; the others are first answered in index order and
\* with the correct letter only
FreeQids == 1
\* random.shuffle / random.sample yield every order of a list of at most
\* MaxShuffleLen elements; of a longer list only the reversed order
MaxShuffleLen == 3
\* number of subjects of a bank of RandomBanks
MaxSubjects == 3
\* length of the subject of BankTaps (three batches, two questions in the
\* last)
TapLen == 22
\* the sizes a subject of a bank of RandomBanks may have
SubjectSizes == {0, 1, 17, 25, 50}

Letters == {"A", "B"}

----------------------------------------------------------------------------
(* Small helpers *)

Min(a, b) == IF a <= b THEN a ELSE b
Max(a, b) == IF a >= b THEN a ELSE b
Range(s) == {s[i] : i \in 1..Len(s)}
Reverse(s) == [i \in 1..Len(s) |-> s[Len(s) + 1 - i]]

\* the elements of s at the positions I, in the order of s
Pick(s, I) ==
    LET F[n \in 0..Len(s)] ==
            IF n = 0 THEN <<>>
            ELSE IF n \in I THEN Append(F[n - 1], s[n]) ELSE F[n - 1]
    IN F[Len(s)]

Perms(s) ==
    LET n == Len(s)
        Bij == {p \in [1..n -> 1..n] : \A i, j \in 1..n : p[i] = p[j] => i = j}
    IN {[i \in 1..n |-> s[p[i]]] : p \in Bij}

\* Python's round(num / den) for num >= 0, den > 0: half to even
RoundHalfEven(num, den) ==
    LET q == num \div den
        r == num % den
    IN IF 2 * r < den THEN q
       ELSE IF 2 * r > den THEN q + 1
       ELSE IF q % 2 = 0 THEN q ELSE q + 1

----------------------------------------------------------------------------
(* The question bank: what load_questions returns.  A bank is the sequence *)
(* of its subjects in insertion order.                                     *)

\* a record as load_questions appends it: four well-formed options and an
\* upper-case answer letter
Question(id, letter) ==
    [question |-> id, options |-> {"A", "B", "C", "D"}, correct |-> letter]

AltLetter(i) == IF i % 2 = 1 THEN "A" ELSE "B"

BankEmpty == <<>>

BankSmall ==
    << [name |-> "osimlik-moyi",
        qs |-> <<Question(1, "A"), Question(2, "B")>>],
       [name |-> "O'simlik-moyi-texnologiyasi",
        qs |-> <<Question(3, "B")>>],
       [name |-> "bo'sh", qs |-> <<>>] >>

BankBig ==
    << [name |-> "osimlik-moyi",
        qs |-> [i \in 1..BigLen |-> Question(i, AltLetter(i))]] >>

Banks == {BankEmpty, BankSmall, BankBig}

\* the bank of the specifications with overlapping handlers
BankTaps ==
    << [name |-> "osimlik-moyi",
        qs |-> [i \in 1..TapLen |-> Question(i, AltLetter(i))]] >>

\* the banks for the random selection: MaxSubjects subjects, the first of
\* them the known ones, with every combination of sizes of SubjectSizes
SubjectName(i) ==
    IF i <= Len(known_subjects) THEN known_subjects[i]
    ELSE "fan-" \o ToString(i)

RandomBank(sizes) ==
    [i \in 1..MaxSubjects |->
        [name |-> SubjectName(i),
         qs |-> [k \in 1..sizes[i] |-> Question(100 * i + k, AltLetter(k))]]]

RandomBanks == {RandomBank(sizes) : sizes \in [1..MaxSubjects -> SubjectSizes]}

\* subj in loaded_subjects and loaded_subjects[subj]
Loaded(bank, subj) ==
    \E i \in 1..Len(bank) : bank[i].name = subj /\ bank[i].qs # <<>>

QuestionsOf(bank, subj) ==
    LET i == CHOOSE i \in 1..Len(bank) : bank[i].name = subj IN bank[i].qs

\* any(loaded_subjects.values())
AnyQuestions(bank) == \E i \in 1..Len(bank) : bank[i].qs # <<>>

\* the callback data of the buttons offered; {} stands for "no keyboard"
get_start_keyboard(bank) ==
    {[kind |-> "subj", name |-> known_subjects[i]] :
        i \in {j \in 1..Len(known_subjects) : Loaded(bank, known_subjects[j])}}
    \cup (IF AnyQuestions(bank) THEN {[kind |-> "random"]} ELSE {})

----------------------------------------------------------------------------
(* user_data.  Every read in the code is a .get with a default, so a       *)
(* cleared dictionary is the record of the defaults.  correct is the set   *)
(* of qid whose key correct_<qid> is True.                                 *)

EmptyUserData ==
    [subject |-> "", questions |-> <<>>, index |-> 0, score |-> 0,
     answered_in_batch |-> {}, current_batch_indices |-> <<>>, correct |-> {}]

\* history of the session in user_data, reset whenever user_data is cleared:
\*   credited    qid -> how often a submission for qid raised the score
\*   right       the qid that received their question's correct letter
\*   good        the positions 0..len-1 whose question received its
\*               correct letter
\*   completions how many completion messages were sent
\*   answered    the indices 0..len-1 that handle_answer gave feedback
\*               for
\*   emitted     the batches sent, in the order of sending, each the set
\*               of its indices
HistInit ==
    [credited |-> <<>>, right |-> {}, good |-> {}, completions |-> 0,
     answered |-> {}, emitted |-> <<>>]

\* the messages of o that tell the user the quiz is finished
Completions(o) ==
    Cardinality({i \in 1..Len(o) :
                    o[i].kind \in {"SendCompletion", "AllAnswered"}})

\* the batches that the messages of o hand to the user
Batches(o) ==
    LET F[i \in 0..Len(o)] ==
            IF i = 0 THEN <<>>
            ELSE IF o[i].kind = "SendBatch"
                 THEN Append(F[i - 1], o[i].sent \cup o[i].skipped)
                 ELSE F[i - 1]
    IN F[Len(o)]

Credited(q) == IF q \in DOMAIN hist.credited THEN hist.credited[q] ELSE 0

NoUpdate == [kind |-> "none"]

Init ==
    /\ bot_data \in Banks
    /\ state = END
    /\ user_data = EmptyUserData
    /\ out = <<>>
    /\ last = [event |-> NoUpdate, handled |-> FALSE, pre |-> EmptyUserData,
               pre_state |-> END, pre_hist |-> HistInit]
    /\ hist = HistInit
    /\ tasks = NoTasks
    /\ user = ANY

----------------------------------------------------------------------------
(* conv_handler: the handler that runs for an update in a state            *)

\* (variant: the answer and next buttons are served in every state)
HandlerAnswersAnywhere(st, data) ==
    IF data.kind = "/start" THEN "start"
    ELSE IF st = SELECTING_SUBJECT /\ data.kind \in {"subj", "random"}
    THEN "start_quiz"
    ELSE IF data.kind = "ans" THEN "handle_answer"
    ELSE IF data.kind = "next" THEN "handle_next"
    ELSE "none"

\* (variant: the subject and random buttons are served in every state)
HandlerSelectsAnywhere(st, data) ==
    IF data.kind = "/start" THEN "start"
    ELSE IF data.kind \in {"subj", "random"} THEN "start_quiz"
    ELSE IF st = QUIZ_IN_PROGRESS /\ data.kind = "ans" THEN "handle_answer"
    ELSE IF st = QUIZ_IN_PROGRESS /\ data.kind = "next" THEN "handle_next"
    ELSE "none"

\* /start is the entry point and the fallback; a callback query is served
\* by the handler of the current state whose pattern matches it, and
\* dropped ("none") if there is none
Handler(st, data) ==
    IF data.kind = "/start" THEN "start"
    ELSE IF st = SELECTING_SUBJECT /\ data.kind \in {"subj", "random"}
    THEN "start_quiz"
    ELSE IF st = QUIZ_IN_PROGRESS /\ data.kind = "ans" THEN "handle_answer"
    ELSE IF st = QUIZ_IN_PROGRESS /\ data.kind = "next" THEN "handle_next"
    ELSE "none"

----------------------------------------------------------------------------
(* start                                                                   *)

\* (variant: the dictionary is not cleared)
ClearNothing(ud) == ud

\* context.user_data.clear()
Clear(ud) == EmptyUserData

\* (variant: the dictionary is left as it is)
startKeepsSession(ud, bank) ==
    LET reply_markup == get_start_keyboard(bank)
    IN IF reply_markup = {}
       THEN [ud |-> ud, ret |-> END,
             out |-> <<[kind |-> "NoSubjects"]>>]
       ELSE [ud |-> ud, ret |-> SELECTING_SUBJECT,
             out |-> <<[kind |-> "ChooseSubject", keyboard |-> reply_markup]>>]

start(ud, bank) ==
    LET reply_markup == get_start_keyboard(bank)
    IN IF reply_markup = {}
       THEN [ud |-> Clear(ud), ret |-> END,
             out |-> <<[kind |-> "NoSubjects"]>>]
       ELSE [ud |-> Clear(ud), ret |-> SELECTING_SUBJECT,
             out |-> <<[kind |-> "ChooseSubject", keyboard |-> reply_markup]>>]

Record(ev) ==
    last' = [event |-> ev, handled |-> TRUE, pre |-> user_data,
             pre_state |-> state, pre_hist |-> hist]

\* /start: the entry point, and the fallback in either state
CmdStart ==
    LET r == start(user_data, bot_data)
    IN /\ Handler(state, [kind |-> "/start"]) = "start"
       /\ user_data' = r.ud
       /\ state' = r.ret
       /\ out' = r.out
       /\ hist' = HistInit
       /\ Record([kind |-> "/start"])
       /\ UNCHANGED <<bot_data, tasks, user>>

----------------------------------------------------------------------------
(* send_next_question_batch                                                *)

\* the options of a record that pass the format test of the batch loop
ValidOptions(q_data) == q_data.options

\* (variant: the end of the batch is not capped by the length)
EndIndexNoMin(current_index, total_questions) ==
    current_index + QUESTIONS_PER_BATCH

\* min(current_index + QUESTIONS_PER_BATCH, total_questions)
EndIndex(current_index, total_questions) ==
    Min(current_index + QUESTIONS_PER_BATCH, total_questions)

send_next_question_batch(ud, bank) ==
    LET current_index == ud.index
        questions == ud.questions
        total_questions == Len(questions)
    IN IF current_index >= total_questions
       THEN [ud |-> ud, ret |-> SELECTING_SUBJECT,
             out |-> <<[kind |-> "AllAnswered",
                        keyboard |-> get_start_keyboard(bank)]>>]
       ELSE IF questions = <<>>
       THEN [ud |-> Clear(ud), ret |-> END,
             out |-> <<[kind |-> "NoQuestionsFound"]>>]
       ELSE
         LET end_index == EndIndex(current_index, total_questions)
             batch_indices ==
                 [i \in 1..(end_index - current_index) |-> current_index + i - 1]
             \* questions without a valid option are marked as answered
             \* enumerate(batch_questions): the slice holds existing questions
             skipped == {g \in Range(batch_indices) :
                            /\ g < total_questions
                            /\ ValidOptions(questions[g + 1]) = {}}
         IN [ud |-> [ud EXCEPT !.current_batch_indices = batch_indices,
                               !.answered_in_batch = skipped,
                               !.index = end_index],
             ret |-> QUIZ_IN_PROGRESS,
             out |-> <<[kind |-> "SendBatch",
                        sent |-> Range(batch_indices) \ skipped,
                        skipped |-> skipped,
                        hasMore |-> end_index < total_questions]>>]

----------------------------------------------------------------------------
(* start_quiz                                                              *)

\* the orders random.shuffle may leave a list in
Shuffles(s) ==
    IF Len(s) <= MaxShuffleLen THEN Perms(s) ELSE {Reverse(s)}

\* the lists random.sample(s, k) may return: every choice in every order
\* for a list of at most MaxShuffleLen elements; of a longer list only the
\* first k and the last k elements, reversed
Samples(s, k) ==
    IF Len(s) <= MaxShuffleLen
    THEN UNION {Shuffles(Pick(s, I)) :
                   I \in {J \in SUBSET (1..Len(s)) : Cardinality(J) = k}}
    ELSE {Reverse(SubSeq(s, 1, k)),
          Reverse(SubSeq(s, Len(s) - k + 1, Len(s)))}

TotalAvailable(bank) ==
    LET F[i \in 0..Len(bank)] ==
            IF i = 0 THEN 0 ELSE F[i - 1] + Len(bank[i].qs)
    IN F[Len(bank)]

\* (variant: a subject's count is not raised to 1)
ActualCountNoFloor(n, total_available) ==
    LET target_total == Min(RANDOM_TARGET, total_available)
        count == RoundHalfEven(target_total * n, total_available)
    IN Min(count, n)

\* actual_count for a subject of n questions; target_total * proportion is
\* taken as the exact quotient target_total * n / total_available (the
\* floating-point product rounds to the same integer for every n <=
\* total_available < 400)
ActualCount(n, total_available) ==
    LET target_total == Min(RANDOM_TARGET, total_available)
        count == Max(1, RoundHalfEven(target_total * n, total_available))
    IN Min(count, n)

\* the values of temp_list after the loop over the subjects from the i-th on
RECURSIVE TempLists(_, _)
TempLists(bank, i) ==
    IF i > Len(bank) THEN {<<>>}
    ELSE IF bank[i].qs = <<>> THEN TempLists(bank, i + 1)
    ELSE {a \o b :
            a \in Samples(bank[i].qs,
                          ActualCount(Len(bank[i].qs), TotalAvailable(bank))),
            b \in TempLists(bank, i + 1)}

\* an early return of start_quiz; cleared is user_data after line 205
Failed(cleared, text) ==
    [ud |-> cleared, ret |-> END, out |-> <<[kind |-> text]>>]

\* lines 255-271: the part of start_quiz after the questions were chosen;
\* six keys are set, the keys correct_<qid> are not touched
BeginQuiz(cleared, subject_name, questions_to_ask, bank) ==
    IF questions_to_ask = <<>> THEN Failed(cleared, "NoQuestionsPrepared")
    ELSE
      LET fresh == [cleared EXCEPT !.subject = subject_name,
                                   !.questions = questions_to_ask,
                                   !.index = 0,
                                   !.score = 0,
                                   !.answered_in_batch = {},
                                   !.current_batch_indices = <<>>]
          r == send_next_question_batch(fresh, bank)
      IN [ud |-> r.ud, ret |-> QUIZ_IN_PROGRESS,
          out |-> <<[kind |-> "StartingQuiz", subject |-> subject_name]>>
                  \o r.out]

\* every outcome of start_quiz for the callback data; user_data is cleared
\* before anything else
start_quiz(ud, data, bank) ==
    LET cleared == Clear(ud)
    IN IF data.kind = "subj"
       THEN IF Loaded(bank, data.name)
            THEN {BeginQuiz(cleared, data.name, q, bank) :
                     q \in Shuffles(QuestionsOf(bank, data.name))}
            ELSE {Failed(cleared, "UnknownSubject")}
       ELSE IF ~AnyQuestions(bank)
            THEN {Failed(cleared, "NoQuestionsAvailable")}
            ELSE {BeginQuiz(cleared, "Random Mix", q, bank) :
                     q \in UNION {Shuffles(t) : t \in TempLists(bank, 1)}}

\* (variant: random.shuffle works on the bank's own list of the subject)
BankShuffledInPlace(bank, data, questions_to_ask) ==
    IF data.kind = "subj" /\ Loaded(bank, data.name)
    THEN [i \in 1..Len(bank) |->
             IF bank[i].name = data.name
             THEN [bank[i] EXCEPT !.qs = questions_to_ask]
             ELSE bank[i]]
    ELSE bank

\* bot_data['questions'] after start_quiz: list(...) at line 217 and
\* random.sample at line 244 build new lists, the shuffles work on those
BankAfterSelect(bank, data, questions_to_ask) == bank

\* the callback data a user may send with a subject or random button
SubjectInputs ==
    {[kind |-> "subj", name |-> n] :
        n \in Range(known_subjects) \cup {"bo'sh", "Unknown"}}
    \cup {[kind |-> "random"]}

\* a subject or random button that conv_handler hands to start_quiz
SelectSubject ==
    /\ \E data \in SubjectInputs :
         \E r \in start_quiz(user_data, data, bot_data) :
            /\ Handler(state, data) = "start_quiz"
            /\ user_data' = r.ud
            /\ state' = r.ret
            /\ out' = r.out
            /\ hist' = [HistInit EXCEPT !.emitted = Batches(r.out)]
            /\ Record(data)
            /\ bot_data' = BankAfterSelect(bot_data, data, r.ud.questions)
    /\ UNCHANGED <<tasks, user>>

----------------------------------------------------------------------------
(* handle_answer                                                           *)

\* callback data "ans|<qid>|<letter>": parts is the number of fields that
\* split("|") yields, numeric whether int() accepts the second field
Ans(q, l) ==
    [kind |-> "ans", parts |-> 3, numeric |-> TRUE, qid |-> q, letter |-> l]

\* questions[qid] of Python: a negative qid counts from the end
Position(qid, total_questions) ==
    IF qid < 0 THEN qid + total_questions ELSE qid

\* (variant: every answer is tracked, in the batch or not)
TrackAnswerAny(ud, qid) ==
    IF qid \notin ud.answered_in_batch
    THEN [ud EXCEPT !.answered_in_batch = @ \cup {qid}]
    ELSE ud

\* lines 390-401: the answer is tracked if the question is in the batch
TrackAnswer(ud, qid) ==
    IF qid \in Range(ud.current_batch_indices) /\ qid \notin ud.answered_in_batch
    THEN [ud EXCEPT !.answered_in_batch = @ \cup {qid}]
    ELSE ud

\* (variant: the key correct_<qid> is not consulted)
ScoreUpdateEveryTime(ud, qid, is_correct) ==
    IF is_correct
    THEN [ud EXCEPT !.score = @ + 1, !.correct = @ \cup {qid}]
    ELSE ud

\* (variant: lines 439-441 active, a wrong letter takes the point back)
ScoreUpdateDeduct(ud, qid, is_correct) ==
    IF is_correct
    THEN IF qid \notin ud.correct
         THEN [ud EXCEPT !.score = @ + 1, !.correct = @ \cup {qid}]
         ELSE ud
    ELSE IF qid \in ud.correct
         THEN [ud EXCEPT !.score = @ - 1, !.correct = @ \ {qid}]
         ELSE ud

\* lines 423-441: the score is raised once per key correct_<qid>
ScoreUpdate(ud, qid, is_correct) ==
    IF is_correct /\ qid \notin ud.correct
    THEN [ud EXCEPT !.score = @ + 1, !.correct = @ \cup {qid}]
    ELSE ud

\* (variant: the quiz ends with the first answer of the last batch)
QuizFinishedLastBatch(ud) ==
    (Len(ud.questions) - 1) \in Range(ud.current_batch_indices)

\* (variant: the comparison of the completion test is strict)
QuizFinishedStrict(ud) ==
    LET is_last_batch ==
            (Len(ud.questions) - 1) \in Range(ud.current_batch_indices)
        all_in_batch_answered ==
            Cardinality(ud.answered_in_batch) > Len(ud.current_batch_indices)
    IN is_last_batch /\ all_in_batch_answered

\* lines 461-464: the end of the quiz
QuizFinished(ud) ==
    LET is_last_batch ==
            (Len(ud.questions) - 1) \in Range(ud.current_batch_indices)
        all_in_batch_answered ==
            Cardinality(ud.answered_in_batch) >= Len(ud.current_batch_indices)
    IN is_last_batch /\ all_in_batch_answered

handle_answer(ud, data, bank) ==
    IF data.parts # 3 \/ ~data.numeric
    THEN [ud |-> ud, ret |-> QUIZ_IN_PROGRESS,
          out |-> <<[kind |-> "BadFormat"]>>]
    ELSE
      LET qid == data.qid
          selected_letter == data.letter
          questions == ud.questions
          total_questions == Len(questions)
      IN IF questions = <<>> \/ qid >= total_questions
         THEN [ud |-> Clear(ud), ret |-> END,
               out |-> <<[kind |-> "UnknownQuestion", qid |-> qid]>>]
         ELSE IF qid < -total_questions
         \* questions[qid] raises IndexError; nothing was written before it
         THEN [ud |-> ud, ret |-> RAISED,
               out |-> <<[kind |-> "UnexpectedError"]>>]
         ELSE
           LET tracked == TrackAnswer(ud, qid)
               question_data == questions[Position(qid, total_questions) + 1]
               is_correct == (selected_letter = question_data.correct)
               scored == ScoreUpdate(tracked, qid, is_correct)
               feedback == [kind |-> "SendFeedback", qid |-> qid,
                            correct |-> is_correct,
                            scored |-> scored.score # ud.score]
           IN IF QuizFinished(scored)
              THEN [ud |-> scored, ret |-> SELECTING_SUBJECT,
                    out |-> <<feedback,
                              [kind |-> "SendCompletion",
                               score |-> scored.score,
                               total |-> total_questions,
                               keyboard |-> get_start_keyboard(bank)]>>]
              ELSE [ud |-> scored, ret |-> QUIZ_IN_PROGRESS,
                    out |-> <<feedback>>]

\* position in the batch of QUESTIONS_PER_BATCH that holds index q
Offset(q) == q % QUESTIONS_PER_BATCH

\* the answer buttons a user presses: any qid of the session, one below and
\* one at the range's ends, and one that Python cannot index
AnswerInputs(ud) ==
    LET n == Len(ud.questions)
        batch == Range(ud.current_batch_indices)
        free(q) == q < 0 \/ q >= n \/ Offset(q) < FreeQids
        inOrder(q) ==
            (q \in batch /\ q \notin ud.answered_in_batch)
            => \A p \in batch :
                  (p < q /\ Offset(p) >= FreeQids) => p \in ud.answered_in_batch
        good(q, l) == l = ud.questions[q + 1].correct
    IN {Ans(q, l) : q \in {-n - 1, -1, n}, l \in {"A"}}
       \cup {Ans(q, l) : q \in {-1} \cap (-n..-1), l \in Letters}
       \cup {d \in {Ans(q, l) : q \in 0..(n - 1), l \in Letters} :
               free(d.qid) \/ (good(d.qid, d.letter) /\ inOrder(d.qid))}
       \cup {[kind |-> "ans", parts |-> 3, numeric |-> FALSE, qid |-> 0,
              letter |-> "A"],
             [kind |-> "ans", parts |-> 2, numeric |-> TRUE, qid |-> 0,
              letter |-> ""]}

HistAfterAnswer(ud, data, r) ==
    IF r.ud = EmptyUserData THEN HistInit
    ELSE IF r.out[1].kind # "SendFeedback" THEN hist
    ELSE
      LET n == Len(ud.questions)
          pos == Position(data.qid, n)
          hit == data.letter = ud.questions[pos + 1].correct
          gain == r.ud.score - ud.score
      IN [credited |->
              IF gain = 0 THEN hist.credited
              ELSE IF data.qid \in DOMAIN hist.credited
                   THEN [hist.credited EXCEPT ![data.qid] = @ + gain]
                   ELSE hist.credited @@ (data.qid :> gain),
          right |-> IF hit THEN hist.right \cup {data.qid} ELSE hist.right,
          good |-> IF hit THEN hist.good \cup {pos} ELSE hist.good,
          completions |-> hist.completions + Completions(r.out),
          answered |-> hist.answered \cup ({data.qid} \cap (0..(n - 1))),
          emitted |-> hist.emitted]

\* the answer button with the callback data, handed to handle_answer
SubmitAnswerWith(data) ==
    LET r == handle_answer(user_data, data, bot_data)
    IN /\ Handler(state, data) = "handle_answer"
       /\ user_data' = r.ud
       /\ state' = IF r.ret = RAISED THEN state ELSE r.ret
       /\ out' = r.out
       /\ hist' = HistAfterAnswer(user_data, data, r)
       /\ Record(data)
       /\ UNCHANGED <<bot_data, tasks, user>>

\* an answer button that conv_handler hands to handle_answer
SubmitAnswer == \E data \in AnswerInputs(user_data) : SubmitAnswerWith(data)

----------------------------------------------------------------------------
(* handle_next                                                             *)

\* (variant: the operands of the comparison are swapped)
BatchAnsweredSwapped(ud) ==
    Len(ud.current_batch_indices) >= Cardinality(ud.answered_in_batch)

\* line 495: the gate of the next batch
BatchAnswered(ud) ==
    Cardinality(ud.answered_in_batch) >= Len(ud.current_batch_indices)

\* (variant: the count of the answered questions is reported)
RemainingCountAnswered(ud) ==
    Cardinality(ud.answered_in_batch)

\* line 506: remaining_count
RemainingCount(ud) ==
    Len(ud.current_batch_indices) - Cardinality(ud.answered_in_batch)

handle_next(ud, bank) ==
    IF BatchAnswered(ud)
    THEN LET r == send_next_question_batch(ud, bank)
         IN [ud |-> r.ud, ret |-> r.ret,
             out |-> <<[kind |-> "DeletePrompt"]>> \o r.out]
    ELSE LET remaining_count == RemainingCount(ud)
         IN [ud |-> ud, ret |-> QUIZ_IN_PROGRESS,
             out |-> <<[kind |-> "BatchIncomplete",
                        remaining |-> remaining_count]>>]

\* the "keyingi test" button that conv_handler hands to handle_next
RequestNextBatch ==
    /\ Handler(state, [kind |-> "next"]) = "handle_next"
    /\ LET r == handle_next(user_data, bot_data)
       IN /\ user_data' = r.ud
          /\ state' = r.ret
          /\ out' = r.out
          /\ hist' = IF r.ud = EmptyUserData THEN HistInit
                      ELSE [hist EXCEPT !.completions = @ + Completions(r.out),
                                        !.emitted = @ \o Batches(r.out)]
          /\ Record([kind |-> "next"])
    /\ UNCHANGED <<bot_data, tasks, user>>

----------------------------------------------------------------------------
(* a callback query that no handler of the current state matches           *)

IgnoredInputs(st) ==
    IF st = QUIZ_IN_PROGRESS
    THEN {[kind |-> "subj", name |-> known_subjects[1]], [kind |-> "random"]}
    ELSE IF st = SELECTING_SUBJECT
    THEN {Ans(0, "A"), Ans(0, "B"), [kind |-> "next"]}
    ELSE {Ans(0, "A"), [kind |-> "next"],
          [kind |-> "subj", name |-> known_subjects[1]], [kind |-> "random"]}

Ignored ==
    /\ \E data \in IgnoredInputs(state) :
         /\ Handler(state, data) = "none"
         /\ last' = [event |-> data, handled |-> FALSE, pre |-> user_data,
                     pre_state |-> state, pre_hist |-> hist]
    /\ out' = <<>>
    /\ UNCHANGED <<bot_data, state, user_data, hist, tasks, user>>

Next ==
    \/ CmdStart
    \/ SelectSubject
    \/ SubmitAnswer
    \/ RequestNextBatch
    \/ Ignored

Spec == Init /\ [][Next]_vars

----------------------------------------------------------------------------
(* The selection of the questions on its own: banks of many sizes, /start  *)
(* and the subject and random buttons, no answers                          *)

InitRandom ==
    /\ bot_data \in RandomBanks
    /\ state = END
    /\ user_data = EmptyUserData
    /\ out = <<>>
    /\ last = [event |-> NoUpdate, handled |-> FALSE, pre |-> EmptyUserData,
               pre_state |-> END, pre_hist |-> HistInit]
    /\ hist = HistInit
    /\ tasks = NoTasks
    /\ user = ANY

NextRandom ==
    \/ CmdStart
    \/ SelectSubject

SpecRandom == InitRandom /\ [][NextRandom]_vars

----------------------------------------------------------------------------
(* A user who, from some point of a quiz on, only answers the open         *)
(* questions of the current batch and asks for the next batch when all of  *)
(* them are answered                                                       *)

\* the user turns cooperative in the middle of a quiz
Settle ==
    /\ user = ANY
    /\ state = QUIZ_IN_PROGRESS
    /\ user' = COOPERATIVE
    /\ UNCHANGED <<bot_data, state, user_data, out, last, hist, tasks>>

\* the answer buttons pressed before the user turns cooperative: those of
\* AnswerInputs, an index of the session with its correct letter only (the
\* letter decides the score and the keys correct_<qid>, which neither the
\* gate nor the completion test reads)
InputsBeforeSettling(ud) ==
    {d \in AnswerInputs(ud) :
        d.qid \in 0..(Len(ud.questions) - 1) =>
            d.letter = ud.questions[d.qid + 1].correct}

\* an update that a handler serves, while the user is not yet cooperative
AnyUpdate ==
    /\ user = ANY
    /\ \/ CmdStart
       \/ SelectSubject
       \/ \E data \in InputsBeforeSettling(user_data) : SubmitAnswerWith(data)
       \/ RequestNextBatch

\* the questions of the current batch that have no answer yet
Open(ud) == Range(ud.current_batch_indices) \ ud.answered_in_batch

\* the cooperative user answers the first open question of the batch
CoopInputs(ud) ==
    {Ans(q, ud.questions[q + 1].correct) :
        q \in {p \in Open(ud) : \A o \in Open(ud) : p <= o}}

CoopAnswer ==
    /\ user = COOPERATIVE
    /\ \E data \in CoopInputs(user_data) : SubmitAnswerWith(data)

\* the next button, pressed when every question of the batch has an answer
CoopNext ==
    /\ user = COOPERATIVE
    /\ Open(user_data) = {}
    /\ RequestNextBatch

NextProgress ==
    \/ AnyUpdate
    \/ Settle
    \/ CoopAnswer
    \/ CoopNext

\* every update sent is handled to its end, and the cooperative user keeps
\* sending
SpecProgress ==
    /\ Init
    /\ [][NextProgress]_vars
    /\ WF_vars(CoopAnswer)
    /\ WF_vars(CoopNext)

----------------------------------------------------------------------------
(* Handlers of one user that overlap.  telegram_webhook awaits             *)
(* process_update for each request, so the handler of a second update can  *)
(* run while the first is suspended at an await.  A task holds the         *)
(* handler's position (the await it is suspended at) and its local         *)
(* variables; a step runs the handler from one await to the next.  The     *)
(* conversation state is read when the update is dispatched and written    *)
(* when the handler returns.  The overlapping handlers are of one kind:    *)
(* next buttons in SpecDoubleTap, answer buttons in SpecConcurrentAnswers. *)

AllIdle == \A t \in TaskNames : tasks[t].pc = "idle"

InitTaps ==
    /\ bot_data = BankTaps
    /\ state = END
    /\ user_data = EmptyUserData
    /\ out = <<>>
    /\ last = [event |-> NoUpdate, handled |-> FALSE, pre |-> EmptyUserData,
               pre_state |-> END, pre_hist |-> HistInit]
    /\ hist = HistInit
    /\ tasks = NoTasks
    /\ user = ANY

\* the handler returns ret after its last await: the conversation state
\* is set
Return(t) ==
    /\ tasks[t].pc = "return"
    /\ state' = tasks[t].ret
    /\ tasks' = [tasks EXCEPT ![t] = IdleTask]
    /\ out' = <<>>
    /\ Record(tasks[t].data)
    /\ UNCHANGED <<bot_data, user_data, hist, user>>

\* conv_handler starts handle_next, which runs to await query.answer()
\* (line 488)
DispatchNext(t) ==
    LET data == [kind |-> "next"]
    IN /\ tasks[t].pc = "idle"
       /\ Handler(state, data) = "handle_next"
       /\ tasks' = [tasks EXCEPT ![t] = [pc |-> "answer", data |-> data]]
       /\ out' = <<>>
       /\ Record(data)
       /\ UNCHANGED <<bot_data, state, user_data, hist, user>>

\* lines 491-510: the gate; open, the handler goes on to await
\* query.delete_message() (line 499), closed, to await send_message
\* (line 510) and then returns QUIZ_IN_PROGRESS
NextGate(t) ==
    /\ tasks[t].pc = "answer"
    /\ tasks[t].data.kind = "next"
    /\ IF BatchAnswered(user_data)
       THEN /\ tasks' = [tasks EXCEPT ![t].pc = "delete"]
            /\ out' = <<[kind |-> "DeletePrompt"]>>
       ELSE /\ tasks' = [tasks EXCEPT ![t] =
                            [pc |-> "return", data |-> tasks[t].data,
                             ret |-> QUIZ_IN_PROGRESS]]
            /\ out' = <<[kind |-> "BatchIncomplete",
                         remaining |-> RemainingCount(user_data)]>>
    /\ Record(tasks[t].data)
    /\ UNCHANGED <<bot_data, state, user_data, hist, user>>

\* lines 277-340: send_next_question_batch up to the first await of its
\* loop: the batch is computed from user_data['index'] and the batch
\* tracking is reset; user_data['index'] is written only after the loop
NextBatchBegin(t) ==
    /\ tasks[t].pc = "delete"
    /\ LET r == send_next_question_batch(user_data, bot_data)
       IN /\ out' = r.out
          /\ IF r.out[1].kind = "SendBatch"
             THEN /\ user_data' = [r.ud EXCEPT !.index = user_data.index]
                  /\ tasks' = [tasks EXCEPT ![t] =
                                  [pc |-> "sending", data |-> tasks[t].data,
                                   end_index |-> r.ud.index,
                                   total_questions |-> Len(user_data.questions)]]
             ELSE /\ user_data' = r.ud
                  /\ tasks' = [tasks EXCEPT ![t] =
                                  [pc |-> "return", data |-> tasks[t].data,
                                   ret |-> r.ret]]
          /\ hist' = [hist EXCEPT !.completions = @ + Completions(r.out),
                                  !.emitted = @ \o Batches(r.out)]
    /\ Record(tasks[t].data)
    /\ UNCHANGED <<bot_data, state, user>>

\* lines 346-359: after the loop's last await the index is written; with
\* more questions left the handler awaits the prompt (line 352) before it
\* returns
NextBatchEnd(t) ==
    /\ tasks[t].pc = "sending"
    /\ user_data' = [user_data EXCEPT !.index = tasks[t].end_index]
    /\ IF tasks[t].end_index < tasks[t].total_questions
       THEN /\ tasks' = [tasks EXCEPT ![t] =
                            [pc |-> "return", data |-> tasks[t].data,
                             ret |-> QUIZ_IN_PROGRESS]]
            /\ UNCHANGED state
       ELSE /\ tasks' = [tasks EXCEPT ![t] = IdleTask]
            /\ state' = QUIZ_IN_PROGRESS
    /\ out' = <<>>
    /\ Record(tasks[t].data)
    /\ UNCHANGED <<bot_data, hist, user>>

\* an answer for the first open question, handled at once
AnswerInTurn ==
    /\ AllIdle
    /\ \E data \in CoopInputs(user_data) : SubmitAnswerWith(data)

NextDoubleTap ==
    \/ AllIdle /\ CmdStart
    \/ AllIdle /\ SelectSubject
    \/ AnswerInTurn
    \/ \E t \in TaskNames :
          \/ DispatchNext(t)
          \/ NextGate(t)
          \/ NextBatchBegin(t)
          \/ NextBatchEnd(t)
          \/ Return(t)

SpecDoubleTap == InitTaps /\ [][NextDoubleTap]_vars

\* the answer buttons pressed at nearly the same time: the first two open
\* questions of the batch, each with its correct letter
ConcurrentAnswerInputs(ud) ==
    {Ans(q, ud.questions[q + 1].correct) :
        q \in {p \in Open(ud) :
                  Cardinality({o \in Open(ud) : o < p}) < 2}}

\* conv_handler starts handle_answer, which runs to await query.answer()
\* (line 365)
DispatchAnswer(t) ==
    /\ tasks[t].pc = "idle"
    /\ \E data \in ConcurrentAnswerInputs(user_data) :
          /\ Handler(state, data) = "handle_answer"
          /\ tasks' = [tasks EXCEPT ![t] = [pc |-> "answer", data |-> data]]
          /\ Record(data)
    /\ out' = <<>>
    /\ UNCHANGED <<bot_data, state, user_data, hist, user>>

\* lines 369-452: the lists are read, the answer is tracked and scored,
\* and the handler awaits query.edit_message_text (line 452); the local
\* answered_in_batch is the set object held in user_data, the local
\* current_batch_indices the list of the time of reading
AnswerTrack(t) ==
    /\ tasks[t].pc = "answer"
    /\ tasks[t].data.kind = "ans"
    /\ LET data == tasks[t].data
           r == handle_answer(user_data, data, bot_data)
           first == [ud |-> r.ud, ret |-> r.ret, out |-> <<r.out[1]>>]
       IN /\ user_data' = r.ud
          /\ out' = first.out
          /\ hist' = HistAfterAnswer(user_data, data, first)
          /\ IF r.out[1].kind = "SendFeedback"
             THEN tasks' = [tasks EXCEPT ![t] =
                               [pc |-> "edit", data |-> data,
                                total_questions |-> Len(user_data.questions),
                                current_batch_indices |->
                                    user_data.current_batch_indices]]
             ELSE tasks' = [tasks EXCEPT ![t] =
                               [pc |-> "return", data |-> data,
                                ret |-> IF r.ret = RAISED THEN state
                                        ELSE r.ret]]
          /\ Record(data)
    /\ UNCHANGED <<bot_data, state, user>>

\* lines 457-482: the completion test with the local lists; the score is
\* read now; a finished quiz awaits send_message (line 473) and returns
\* SELECTING_SUBJECT
AnswerCheck(t) ==
    /\ tasks[t].pc = "edit"
    /\ LET seen == [user_data EXCEPT
                       !.current_batch_indices = tasks[t].current_batch_indices]
       IN IF QuizFinished(seen)
          THEN /\ out' = <<[kind |-> "SendCompletion",
                            score |-> user_data.score,
                            total |-> tasks[t].total_questions,
                            keyboard |-> get_start_keyboard(bot_data)]>>
               /\ tasks' = [tasks EXCEPT ![t] =
                               [pc |-> "return", data |-> tasks[t].data,
                                ret |-> SELECTING_SUBJECT]]
               /\ hist' = [hist EXCEPT !.completions = @ + 1]
               /\ UNCHANGED state
          ELSE /\ out' = <<>>
               /\ tasks' = [tasks EXCEPT ![t] = IdleTask]
               /\ state' = QUIZ_IN_PROGRESS
               /\ UNCHANGED hist
    /\ Record(tasks[t].data)
    /\ UNCHANGED <<bot_data, user_data, user>>

\* the next button pressed when the batch is answered, handled at once
NextInTurn ==
    /\ AllIdle
    /\ Open(user_data) = {}
    /\ RequestNextBatch

NextConcurrentAnswers ==
    \/ AllIdle /\ CmdStart
    \/ AllIdle /\ SelectSubject
    \/ NextInTurn
    \/ \E t \in TaskNames :
          \/ DispatchAnswer(t)
          \/ AnswerTrack(t)
          \/ AnswerCheck(t)
          \/ Return(t)

SpecConcurrentAnswers == InitTaps /\ [][NextConcurrentAnswers]_vars

----------------------------------------------------------------------------
(* Names used by the properties                                            *)

questions == user_data.questions
score == user_data.score
cursor == user_data.index
currentBatch == Range(user_data.current_batch_indices)
answeredInBatch == user_data.answered_in_batch

pre == last.pre
preBatch == Range(last.pre.current_batch_indices)
preAnswered == last.pre.answered_in_batch

Sent(kind) == \E i \in 1..Len(out) : out[i].kind = kind

\* the last update was an answer that handle_answer could parse
Answered ==
    /\ last.handled
    /\ last.event.kind = "ans"
    /\ last.event.parts = 3
    /\ last.event.numeric

\* the last update was an answer for an index of the session before it
AnsweredInRange == Answered /\ last.event.qid \in 0..(Len(pre.questions) - 1)

\* ... with the letter that is the question's correct answer
AnsweredRight ==
    /\ AnsweredInRange
    /\ last.event.letter = pre.questions[last.event.qid + 1].correct

AnsweredWrong ==
    /\ AnsweredInRange
    /\ last.event.letter # pre.questions[last.event.qid + 1].correct

NextRequested == last.handled /\ last.event.kind = "next"

\* the last update was a subject or random button that started a quiz
QuizStarted ==
    /\ last.handled
    /\ last.event.kind \in {"subj", "random"}
    /\ state = QUIZ_IN_PROGRESS

----------------------------------------------------------------------------
(* C1  Idempotent scoring.  For every index q of the session, the          *)
(* submissions of the correct letter for q have raised the score by        *)
(* exactly 1 in total if there was at least one, and by 0 otherwise; the   *)
(* first such submission raises the score by 1 and every later one leaves  *)
(* it as it was.                                                           *)
C1_IdempotentScoring ==
    /\ \A q \in 0..(Len(questions) - 1) :
          Credited(q) = IF q \in hist.right THEN 1 ELSE 0
    /\ AnsweredRight =>
          score = IF last.event.qid \in last.pre_hist.right
                  THEN pre.score ELSE pre.score + 1

\* the correct letter was submitted again for a question that had it before
C1_Witness ==
    /\ AnsweredRight
    /\ last.event.qid \in last.pre_hist.right
    /\ Credited(last.event.qid) = 1
    /\ score = pre.score

----------------------------------------------------------------------------
(* C2  Score bounds.  In every reachable state 0 <= score <=               *)
(* len(questions).                                                         *)
C2_ScoreBounds == 0 <= score /\ score <= Len(questions)

----------------------------------------------------------------------------
(* C3  Batch gating.  A next-batch request in QUIZ_IN_PROGRESS is rejected *)
(* as BatchIncomplete with user_data unchanged when answeredInBatch is a   *)
(* strict subset of currentBatch, and emits the next batch and advances    *)
(* the cursor when the two are equal.                                      *)
C3_BatchGating ==
    NextRequested =>
        /\ last.pre_state = QUIZ_IN_PROGRESS
        /\ (preAnswered \subseteq preBatch /\ preAnswered # preBatch) =>
              /\ Sent("BatchIncomplete")
              /\ ~Sent("SendBatch")
              /\ user_data = pre
              /\ state = QUIZ_IN_PROGRESS
        /\ preAnswered = preBatch =>
              /\ Sent("SendBatch")
              /\ ~Sent("BatchIncomplete")
              /\ cursor > pre.index
              /\ state = QUIZ_IN_PROGRESS

\* a request rejected while a part of the batch was answered
C3_Witness ==
    /\ NextRequested
    /\ preAnswered # {}
    /\ preAnswered # preBatch
    /\ Sent("BatchIncomplete")

----------------------------------------------------------------------------
(* C4  Completion detection.  A session sends at most one completion       *)
(* message.  It is sent by the answer that makes the batch holding the     *)
(* last question fully answered, and by no other update; that answer       *)
(* always sends it and moves to SELECTING_SUBJECT.  While the quiz is in   *)
(* progress the batch holding the last question is never fully answered.   *)
C4_CompletionDetection ==
    LET lastQ == Len(questions) - 1
        full == lastQ \in currentBatch /\ currentBatch \subseteq answeredInBatch
        wasFull == preBatch \subseteq preAnswered
    IN /\ hist.completions <= 1
       /\ ~Sent("AllAnswered")
       /\ Sent("SendCompletion") =>
             /\ Answered
             /\ last.pre_state = QUIZ_IN_PROGRESS
             /\ state = SELECTING_SUBJECT
             /\ hist.completions = 1
             /\ questions = pre.questions
             /\ currentBatch = preBatch
             /\ full
             /\ ~wasFull
       /\ (Answered /\ questions # <<>> /\ full) => Sent("SendCompletion")
       /\ (state = QUIZ_IN_PROGRESS) => ~full

\* the completion of a quiz of more than one batch
C4_Witness ==
    /\ Sent("SendCompletion")
    /\ Len(questions) > QUESTIONS_PER_BATCH
    /\ hist.completions = 1
    /\ state = SELECTING_SUBJECT

----------------------------------------------------------------------------
(* C5  Reported result.  A completion message reports as score the number  *)
(* of questions of the session that received their correct letter at       *)
(* least once, and as total len(questions).                                *)
C5_ReportedResult ==
    \A i \in 1..Len(out) :
        out[i].kind = "SendCompletion" =>
            /\ out[i].score = Cardinality(hist.good)
            /\ out[i].total = Len(questions)

----------------------------------------------------------------------------
(* C6  Unknown question.  An answer whose index is outside                 *)
(* 0..len(questions)-1 is never scored, never added to answeredInBatch     *)
(* and never completes the quiz.                                           *)
C6_UnknownQuestion ==
    (Answered /\ ~AnsweredInRange) =>
        /\ score <= pre.score
        /\ user_data.correct \subseteq pre.correct
        /\ answeredInBatch \subseteq preAnswered
        /\ ~Sent("SendCompletion")

----------------------------------------------------------------------------
(* C7  Score never decreases.  An answer with a letter other than the      *)
(* correct one leaves the score as it was, also when the question had      *)
(* earned its point before; as long as user_data holds the same session    *)
(* no update lowers the score.                                             *)
C7_ScoreNeverDecreases ==
    /\ AnsweredWrong =>
          /\ score = pre.score
          /\ Credited(last.event.qid)
                = (IF last.event.qid \in last.pre_hist.right THEN 1 ELSE 0)
    /\ (last.event.kind \in {"ans", "next"} /\ questions # <<>>) =>
          /\ questions = pre.questions
          /\ score >= pre.score

\* a wrong letter for a question that had earned its point
C7_Witness ==
    /\ AnsweredWrong
    /\ last.event.qid \in last.pre_hist.right
    /\ score = pre.score
    /\ score >= 1

----------------------------------------------------------------------------
(* C8  Stale answers.  An answer for an index of the session that is not   *)
(* in currentBatch is scored like any other answer (one point for the      *)
(* first correct letter) and leaves currentBatch, answeredInBatch and the  *)
(* cursor unchanged, so neither the gate nor the completion test changes.  *)
C8_StaleAnswers ==
    (AnsweredInRange /\ last.event.qid \notin preBatch) =>
        /\ Sent("SendFeedback")
        /\ score = IF AnsweredRight /\ last.event.qid \notin last.pre_hist.right
                   THEN pre.score + 1 ELSE pre.score
        /\ user_data.current_batch_indices = pre.current_batch_indices
        /\ answeredInBatch = preAnswered
        /\ cursor = pre.index
        /\ BatchAnswered(user_data) = BatchAnswered(pre)
        /\ state = QUIZ_IN_PROGRESS
        /\ ~Sent("SendCompletion")

\* a question of the first batch earns its point during the second batch
C8_Witness ==
    /\ AnsweredRight
    /\ currentBatch # {}
    /\ \A p \in currentBatch : last.event.qid < p
    /\ score = pre.score + 1
    /\ answeredInBatch = preAnswered

----------------------------------------------------------------------------
(* C9  Emit next batch.  When a batch is emitted from the index from =     *)
(* cursor < len(questions), afterwards currentBatch = from..to-1,          *)
(* answeredInBatch is empty and cursor = to, with to = min(from + 10,      *)
(* len(questions)); the emission leaves the score alone (0 in a quiz      *)
(* just started).                                                          *)
C9_EmitNextBatch ==
    Sent("SendBatch") =>
        LET from == IF NextRequested THEN pre.index ELSE 0
            to == IF from + 10 <= Len(questions)
                  THEN from + 10 ELSE Len(questions)
        IN /\ NextRequested \/ QuizStarted
           /\ from < Len(questions)
           /\ currentBatch = from..(to - 1)
           /\ Len(user_data.current_batch_indices) = to - from
           /\ answeredInBatch = {}
           /\ cursor = to
           /\ score = IF NextRequested THEN pre.score ELSE 0
           /\ NextRequested => questions = pre.questions

\* the second batch of an 11-question quiz ends at the last question
C9_Witness ==
    /\ NextRequested
    /\ Sent("SendBatch")
    /\ pre.index = QUESTIONS_PER_BATCH
    /\ cursor = Len(questions)
    /\ cursor < pre.index + QUESTIONS_PER_BATCH

----------------------------------------------------------------------------
(* C10  Fresh session.  After a subject or random button started a quiz,   *)
(* user_data holds score 0, no key correct_<qid>, an empty answeredInBatch *)
(* and the first batch 0..min(10, len)-1, whatever it held before; a       *)
(* correct letter then earns its point again.                              *)
C10_FreshSession ==
    /\ QuizStarted =>
          LET n == Len(questions)
              end == IF n <= 10 THEN n ELSE 10
          IN /\ n > 0
             /\ user_data =
                   [subject |-> user_data.subject,
                    questions |-> questions,
                    index |-> end,
                    score |-> 0,
                    answered_in_batch |-> {},
                    current_batch_indices |-> [i \in 1..end |-> i - 1],
                    correct |-> {}]
    /\ (AnsweredRight /\ pre.correct = {}) => score = pre.score + 1

\* a quiz started over the finished session of a user who had scored
C10_Witness ==
    /\ QuizStarted
    /\ pre.score > 0
    /\ pre.correct # {}
    /\ pre.questions = questions
    /\ score = 0

----------------------------------------------------------------------------
\* the last update was a subject or random button that start_quiz refused
SelectFailed ==
    /\ last.handled
    /\ last.event.kind \in {"subj", "random"}
    /\ \/ Sent("UnknownSubject")
       \/ Sent("NoQuestionsAvailable")
       \/ Sent("NoQuestionsPrepared")

(* C11  Failed selection keeps the state.  After a subject or random       *)
(* button that start_quiz refused, user_data holds no session and the      *)
(* conversation is in SELECTING_SUBJECT, so that every subject or random   *)
(* button pressed next is handed to start_quiz without a /start before it. *)
C11_FailedSelectionKeepsState ==
    SelectFailed =>
        /\ questions = <<>>
        /\ state = SELECTING_SUBJECT
        /\ \A data \in SubjectInputs : Handler(state, data) = "start_quiz"

----------------------------------------------------------------------------
(* C12  UnknownSubject does not mutate the session.  A subject button      *)
(* that start_quiz refuses because the subject is not loaded or empty      *)
(* leaves user_data (subject, questions, score and the rest of a finished  *)
(* quiz) exactly as it was before the update.                              *)
C12_UnknownSubjectKeepsSession ==
    (last.handled /\ Sent("UnknownSubject")) => user_data = pre

----------------------------------------------------------------------------
\* the last update was the command /start
Restarted == last.handled /\ last.event.kind = "/start"

(* C13  Restart from any state.  /start is served in every state; after    *)
(* it user_data holds nothing of the session (no questions, score 0, no    *)
(* batch tracking, no key correct_<qid>), and if the keyboard offers at    *)
(* least one button the conversation is in SELECTING_SUBJECT with the      *)
(* keyboard sent, otherwise it is ended.                                   *)
C13_RestartDiscards ==
    /\ last.event.kind = "/start" => last.handled
    /\ Restarted =>
          /\ user_data = EmptyUserData
          /\ hist = HistInit
          /\ get_start_keyboard(bot_data) # {} =>
                /\ state = SELECTING_SUBJECT
                /\ Sent("ChooseSubject")
          /\ get_start_keyboard(bot_data) = {} => state = END

\* /start in the middle of a quiz whose user had scored
C13_Witness ==
    /\ Restarted
    /\ last.pre_state = QUIZ_IN_PROGRESS
    /\ pre.score > 0
    /\ pre.correct # {}
    /\ preAnswered # {}
    /\ preAnswered # preBatch
    /\ user_data = EmptyUserData
    /\ state = SELECTING_SUBJECT

----------------------------------------------------------------------------
(* C14  Events forbidden in SELECTING_SUBJECT.  An answer or next button   *)
(* that arrives while the conversation is not in QUIZ_IN_PROGRESS (in      *)
(* SELECTING_SUBJECT before any quiz or with the finished session still    *)
(* stored, or ended after a refused selection) is not handled: user_data   *)
(* (score, cursor, currentBatch, answeredInBatch), the state and the       *)
(* session's history stay as they were and no message is sent.             *)
C14_ForbiddenInSelecting ==
    (last.event.kind \in {"ans", "next"}
     /\ last.pre_state # QUIZ_IN_PROGRESS) =>
        /\ ~last.handled
        /\ user_data = pre
        /\ state = last.pre_state
        /\ hist = last.pre_hist
        /\ out = <<>>

\* an answer button pressed after the quiz was completed
C14_Witness ==
    /\ last.event.kind = "ans"
    /\ last.pre_state = SELECTING_SUBJECT
    /\ pre.questions # <<>>
    /\ pre.score > 0
    /\ last.pre_hist.completions = 1
    /\ user_data = pre
    /\ state = SELECTING_SUBJECT

----------------------------------------------------------------------------
(* C15  SelectSubject only in SELECTING_SUBJECT.  A subject or random      *)
(* button that arrives in QUIZ_IN_PROGRESS is not handled: user_data       *)
(* (questions, cursor, score, batch tracking) and the state stay as they   *)
(* were and no message is sent; start_quiz runs in SELECTING_SUBJECT only. *)
C15_SelectOnlyInSelecting ==
    /\ (last.event.kind \in {"subj", "random"}
        /\ last.pre_state = QUIZ_IN_PROGRESS) =>
          /\ ~last.handled
          /\ user_data = pre
          /\ state = QUIZ_IN_PROGRESS
          /\ hist = last.pre_hist
          /\ out = <<>>
    /\ (last.event.kind \in {"subj", "random"} /\ last.handled) =>
          last.pre_state = SELECTING_SUBJECT

\* a subject button pressed in the second batch of a quiz
C15_Witness ==
    /\ last.event.kind = "subj"
    /\ ~last.handled
    /\ last.pre_state = QUIZ_IN_PROGRESS
    /\ cursor > QUESTIONS_PER_BATCH
    /\ score > 0
    /\ user_data = pre

----------------------------------------------------------------------------
(* C16  Cursor invariant.  In every reachable state 0 <= cursor <=         *)
(* len(questions).  An update changes the cursor only by emitting a batch  *)
(* (or by discarding the session, after which it reads 0): an answer, a    *)
(* rejected next request and a dropped button leave it as it was.          *)
C16_CursorInvariant ==
    /\ 0 <= cursor
    /\ cursor <= Len(questions)
    /\ cursor # pre.index => Sent("SendBatch") \/ user_data = EmptyUserData
    /\ Sent("SendBatch") => cursor > 0

\* an answer given in the last batch, the cursor at len(questions)
C16_Witness ==
    /\ AnsweredInRange
    /\ state = QUIZ_IN_PROGRESS
    /\ Len(questions) > QUESTIONS_PER_BATCH
    /\ cursor = Len(questions)
    /\ cursor = pre.index
    /\ score > pre.score

----------------------------------------------------------------------------
(* C17  answeredInBatch is a subset of currentBatch in every reachable     *)
(* state, and current_batch_indices holds no index twice; hence the size   *)
(* comparison len(answered_in_batch) >= len(current_batch_indices) of the  *)
(* next-batch gate and of the completion test is true exactly when         *)
(* answeredInBatch contains currentBatch.                                  *)
C17_AnsweredSubset ==
    /\ answeredInBatch \subseteq currentBatch
    /\ Cardinality(currentBatch) = Len(user_data.current_batch_indices)
    /\ BatchAnswered(user_data) <=> currentBatch \subseteq answeredInBatch
    /\ QuizFinished(user_data) <=>
          /\ (Len(questions) - 1) \in currentBatch
          /\ currentBatch \subseteq answeredInBatch

\* a question of the batch answered a second time while others are open
C17_Witness ==
    /\ Answered
    /\ last.event.qid \in preBatch
    /\ last.event.qid \in preAnswered
    /\ answeredInBatch = preAnswered
    /\ answeredInBatch # currentBatch
    /\ ~BatchAnswered(user_data)

----------------------------------------------------------------------------
(* C18  BatchIncomplete count.  The count that a rejected next request     *)
(* reports is the number of questions of currentBatch that are not in      *)
(* answeredInBatch; it is at least 1 and at most the batch size.           *)
C18_RemainingCount ==
    \A i \in 1..Len(out) :
        out[i].kind = "BatchIncomplete" =>
            /\ NextRequested
            /\ out[i].remaining = Cardinality(preBatch \ preAnswered)
            /\ out[i].remaining >= 1
            /\ out[i].remaining <= QUESTIONS_PER_BATCH

\* a batch of ten with no answer yet: the request reports ten
C18_Witness ==
    /\ NextRequested
    /\ preAnswered = {}
    /\ \E i \in 1..Len(out) :
          /\ out[i].kind = "BatchIncomplete"
          /\ out[i].remaining = QUESTIONS_PER_BATCH

----------------------------------------------------------------------------
\* the last update was a random button that started a quiz
RandomStarted == QuizStarted /\ last.event.kind = "random"

\* how many questions of the session come from the i-th subject of the bank
Drawn(i) ==
    Cardinality({k \in 1..Len(questions) :
                    questions[k] \in Range(bot_data[i].qs)})

(* C19  Random selection length.  A quiz started with the random button    *)
(* on a bank of T questions in total has exactly min(50, T) questions,     *)
(* whatever the sizes of the subjects.                                     *)
C19_RandomLength ==
    RandomStarted =>
        Len(questions) = Min(RANDOM_TARGET, TotalAvailable(bot_data))

----------------------------------------------------------------------------
(* C20  Random selection per subject.  In a quiz started with the random   *)
(* button every question comes from a subject of the bank and none is      *)
(* drawn twice; each subject with questions contributes at least 1 and at  *)
(* most as many questions as it has, and an empty subject contributes      *)
(* none.                                                                   *)
C20_RandomPerSubject ==
    RandomStarted =>
        /\ Cardinality(Range(questions)) = Len(questions)
        /\ \A k \in 1..Len(questions) :
              \E i \in 1..Len(bot_data) : questions[k] \in Range(bot_data[i].qs)
        /\ \A i \in 1..Len(bot_data) :
              LET n == Len(bot_data[i].qs)
              IN /\ n = 0 => Drawn(i) = 0
                 /\ n > 0 => 1 <= Drawn(i) /\ Drawn(i) <= n

\* a subject of one question next to more than a hundred others: its
\* proportional count rounds to 0 and it still contributes its question
C20_Witness ==
    /\ RandomStarted
    /\ TotalAvailable(bot_data) > 2 * RANDOM_TARGET
    /\ \E i \in 1..Len(bot_data) :
          /\ Len(bot_data[i].qs) = 1
          /\ Drawn(i) = 1

----------------------------------------------------------------------------
\* the last update was a subject button that started a quiz
SubjectStarted == QuizStarted /\ last.event.kind = "subj"

(* C21  Named-subject session content.  After a subject button started a   *)
(* quiz, the session's questions are a permutation of the bank's list of   *)
(* that subject: the same length, every question of the bank exactly once  *)
(* and no other; the bank is in every state one of the banks as loaded,    *)
(* each list in its loading order.                                         *)
C21_NamedSubjectContent ==
    /\ bot_data \in Banks
    /\ SubjectStarted =>
          LET loaded == QuestionsOf(bot_data, last.event.name)
          IN /\ user_data.subject = last.event.name
             /\ Len(questions) = Len(loaded)
             /\ Range(questions) = Range(loaded)
             /\ \A i \in 1..Len(loaded) :
                   Cardinality({k \in 1..Len(questions) :
                                   questions[k] = loaded[i]}) = 1

\* a quiz whose questions come in another order than the bank's
C21_Witness ==
    /\ SubjectStarted
    /\ Len(questions) > 1
    /\ questions # QuestionsOf(bot_data, last.event.name)
    /\ questions[1] = QuestionsOf(bot_data, last.event.name)[Len(questions)]

----------------------------------------------------------------------------
(* C24  The "already finished" branch is unreachable.  With the updates    *)
(* of a user handled one at a time, no state in QUIZ_IN_PROGRESS has a     *)
(* current batch that holds the last question and is fully answered; so    *)
(* whenever the gate of the next batch is open there the cursor is below   *)
(* len(questions), a next request that passes the gate emits a batch, and  *)
(* neither early return of send_next_question_batch is ever taken.         *)
C24_DefensivePathUnreachable ==
    /\ state = QUIZ_IN_PROGRESS =>
          /\ questions # <<>>
          /\ ~((Len(questions) - 1) \in currentBatch
               /\ BatchAnswered(user_data))
          /\ BatchAnswered(user_data) => cursor < Len(questions)
    /\ (NextRequested /\ Sent("DeletePrompt")) =>
          /\ pre.index < Len(pre.questions)
          /\ Sent("SendBatch")
          /\ state = QUIZ_IN_PROGRESS
    /\ \A i \in 1..Len(out) :
          out[i].kind \notin {"AllAnswered", "NoQuestionsFound"}

\* a next request that passed the gate after ten answers
C24_Witness ==
    /\ NextRequested
    /\ Sent("DeletePrompt")
    /\ Cardinality(preAnswered) = QUESTIONS_PER_BATCH
    /\ preAnswered = preBatch
    /\ pre.index < Len(pre.questions)
    /\ currentBatch # preBatch

----------------------------------------------------------------------------
\* the i-th batch of a quiz of n questions
NthBatch(i, n) ==
    (QUESTIONS_PER_BATCH * (i - 1))..(Min(QUESTIONS_PER_BATCH * i, n) - 1)

(* C25  Every question is answered before completion.  With the updates    *)
(* of a user handled one at a time, the batches emitted in a session are   *)
(* the consecutive ranges of ten indices from 0 on, the current batch the  *)
(* last of them, so no index is in two batches; every index below the      *)
(* current batch has received an answer; and when the completion message   *)
(* is sent every index 0..len(questions)-1 has been in exactly one batch   *)
(* and has received an answer.                                             *)
C25_AllAnsweredBeforeCompletion ==
    LET n == Len(questions)
        k == Len(hist.emitted)
    IN /\ \A i \in 1..k : hist.emitted[i] = NthBatch(i, n)
       /\ questions # <<>> =>
             /\ k >= 1
             /\ currentBatch = hist.emitted[k]
             /\ \A q \in 0..(n - 1) :
                   (\A p \in currentBatch : q < p) => q \in hist.answered
       /\ Sent("SendCompletion") =>
             \A q \in 0..(n - 1) :
                 /\ q \in hist.answered
                 /\ Cardinality({i \in 1..k : q \in hist.emitted[i]}) = 1

\* the completion of a quiz of two batches
C25_Witness ==
    /\ Sent("SendCompletion")
    /\ Len(hist.emitted) = 2
    /\ hist.emitted[1] # {}
    /\ hist.emitted[2] = currentBatch
    /\ \A q \in 0..(Len(questions) - 1) : q \in hist.answered

----------------------------------------------------------------------------
\* ceil(n / QUESTIONS_PER_BATCH)
BatchesNeeded(n) == (n + QUESTIONS_PER_BATCH - 1) \div QUESTIONS_PER_BATCH

\* the quiz has ended with its completion message
Completed ==
    /\ state = SELECTING_SUBJECT
    /\ Sent("SendCompletion")
    /\ hist.completions = 1
    /\ Len(hist.emitted) = BatchesNeeded(Len(questions))

(* C26  Progress to completion.  From every state in QUIZ_IN_PROGRESS, if  *)
(* the user from then on only answers open questions of the current batch  *)
(* and asks for the next batch when the batch is answered, and keeps doing *)
(* so, the completion message is eventually sent and the conversation is   *)
(* back in SELECTING_SUBJECT, ceil(len(questions) / 10) batches having     *)
(* been emitted in the session.                                            *)
C26_ProgressToCompletion == (user = COOPERATIVE) ~> Completed

\* a quiz of two batches completed by a user who turned cooperative in
\* its first batch
C26_Witness ==
    /\ user = COOPERATIVE
    /\ Completed
    /\ Len(hist.emitted) = 2
    /\ Len(questions) > QUESTIONS_PER_BATCH

----------------------------------------------------------------------------
(* C22  No skipped batch under double-tap.  When the handlers of two next  *)
(* buttons overlap at their awaits, the session advances by at most one    *)
(* batch: every index that the cursor has passed is in the current batch   *)
(* or has received an answer, as the indices of a fully answered batch     *)
(* have.                                                                   *)
C22_NoSkippedBatch ==
    \A q \in 0..(cursor - 1) : q \in currentBatch \/ q \in hist.answered

----------------------------------------------------------------------------
(* C23  Single completion under concurrent answers.  When the handlers of  *)
(* two answer buttons for questions of the last batch overlap at the       *)
(* await between the update of answeredInBatch and the completion test,    *)
(* the session still sends at most one completion message.                 *)
C23_SingleCompletion == hist.completions <= 1
====
